---- MODULE Spec2Model ----
(***************************************************************************)
(* A model of prm/analyze/analyzer.py: the Analyzer's threshold store      *)
(* (self.threshold, the threshold file), build_model and the builders it   *)
(* calls, update_lcutilmax and the accessors.                              *)
(*                                                                         *)
(* Python values are tagged records: an int is [type |-> "int", v |-> n],  *)
(* a dict is [type |-> "dict", v |-> <<..., <<key, value>>, ...>>] with    *)
(* its items in insertion order, a list is [type |-> "list", v |-> <<..>>].*)
(* Floats are carried as integers (fixed point): no claim rests on a       *)
(* fractional part.                                                        *)
(***************************************************************************)
EXTENDS Integers, Sequences, FiniteSets, TLC

VARIABLES
    threshold,    \* self.threshold
    thresh_file,  \* the file at self.thresh_file: [exists, text]
    metric_file,  \* the metric table build_model is given (metric.csv)
    util_file,    \* the utilization table build_model is given (util.csv)
    normfit,      \* what stats.norm.fit answers during the build
    fensefault,   \* which fence computation of the estimator raises
    last,         \* the last call made on the Analyzer and how it ended
    ret           \* what the last call returned

vars == <<threshold, thresh_file, metric_file, util_file, normfit, fensefault,
          last, ret>>

(***************************************************************************)
(* Bounds of the model.                                                    *)
(***************************************************************************)
MaxRows == 2       \* rows of a metric table
MaxLcUtil == 1     \* update_lcutilmax is called with 0..MaxLcUtil
MaxCpu == 9        \* partition_utilization is applied to 0..MaxCpu cores
MaxStep == 10      \* ... and to steps 1..MaxStep
MaxSamples == 3    \* rows of one job's table given to _build_tdp_thresh
MaxFreq == 3       \* normalized-frequency values 1..MaxFreq of those rows

(***************************************************************************)
(* Python values.                                                          *)
(***************************************************************************)
PyInt(n) == [type |-> "int", v |-> n]
PyDict(items) == [type |-> "dict", v |-> items]
PyList(elems) == [type |-> "list", v |-> elems]
PyNone == [type |-> "None", v |-> <<>>]
EmptyDict == PyDict(<<>>)

Keys(d) == {d.v[i][1] : i \in DOMAIN d.v}

\* key in d
HasKey(d, k) == d.type = "dict" /\ k \in Keys(d)

\* d[k], for a key of d
Get(d, k) == d.v[CHOOSE i \in DOMAIN d.v : d.v[i][1] = k][2]

\* d[k] = val: an existing key keeps its place, a new one goes last
Set(d, k, val) ==
    IF k \in Keys(d)
    THEN PyDict([i \in DOMAIN d.v |->
                    IF d.v[i][1] = k THEN <<k, val>> ELSE d.v[i]])
    ELSE PyDict(Append(d.v, <<k, val>>))

\* bool(x) of a dict, a list or an int
Truthy(x) == IF x.type = "int" THEN x.v # 0 ELSE Len(x.v) > 0

(***************************************************************************)
(* json.dumps and json.loads.  The text is kept as the tree of its         *)
(* tokens: a number is the sequence of its characters, an object the       *)
(* sequence of its members in the order written.                           *)
(***************************************************************************)
Digits == <<"0", "1", "2", "3", "4", "5", "6", "7", "8", "9">>

RECURSIVE NatText(_)
NatText(n) ==
    IF n < 10 THEN <<Digits[n + 1]>>
    ELSE Append(NatText(n \div 10), Digits[(n % 10) + 1])

NumText(n) == IF n < 0 THEN <<"-">> \o NatText(0 - n) ELSE NatText(n)

DigitVal(c) == (CHOOSE i \in DOMAIN Digits : Digits[i] = c) - 1

RECURSIVE ParseNat(_)
ParseNat(s) ==
    IF Len(s) = 0 THEN 0
    ELSE 10 * ParseNat(SubSeq(s, 1, Len(s) - 1)) + DigitVal(s[Len(s)])

ParseNum(s) == IF s[1] = "-" THEN 0 - ParseNat(Tail(s)) ELSE ParseNat(s)

RECURSIVE Dumps(_)
Dumps(x) ==
    CASE x.type = "int" -> [t |-> "number", v |-> NumText(x.v)]
      [] x.type = "dict" ->
            [t |-> "object",
             v |-> [i \in DOMAIN x.v |-> <<x.v[i][1], Dumps(x.v[i][2])>>]]
      [] x.type = "list" ->
            [t |-> "array", v |-> [i \in DOMAIN x.v |-> Dumps(x.v[i])]]

\* the members of a JSON object as a dict: a repeated name keeps its last value
RECURSIVE FromMembers(_, _)
FromMembers(d, members) ==
    IF Len(members) = 0 THEN d
    ELSE FromMembers(Set(d, Head(members)[1], Head(members)[2]), Tail(members))

RECURSIVE Loads(_)
Loads(j) ==
    CASE j.t = "number" -> PyInt(ParseNum(j.v))
      [] j.t = "object" ->
            FromMembers(EmptyDict,
                        [i \in DOMAIN j.v |-> <<j.v[i][1], Loads(j.v[i][2])>>])
      [] j.t = "array" -> PyList([i \in DOMAIN j.v |-> Loads(j.v[i])])

NoFile == [exists |-> FALSE, text |-> [t |-> "none", v |-> <<>>]]
Garbage == [exists |-> TRUE, text |-> [t |-> "invalid", v |-> <<>>]]
FileOf(text) == [exists |-> TRUE, text |-> text]

\* open(thresh_file, 'r') and json.loads both raise into the same except
CanLoad(f) == f.exists /\ f.text.t \in {"number", "object", "array"}

(***************************************************************************)
(* The column names of class Metric that the builders read.                *)
(***************************************************************************)
MB == "memory_bandwidth_total"
MBL == "memory_bandwidth_local"
MBR == "memory_bandwidth_remote"
CPI == "cycles_per_instruction"
L3MPKI == "cache_miss_per_kilo_instruction"
NF == "normalized_frequency"
UTIL == "cpu_utilization"
L2SPKI == "stalls_l2miss_per_kilo_instruction"
MSPKI == "stalls_memory_load_per_kilo_instruction"

UTIL_BIN_STEP == 50

\* build_model's defaults for span and strict (verbose only turns on logging)
SPAN == 4
STRICT == TRUE

(***************************************************************************)
(* self.workload_meta, as __init__ reads it from the workload file: job    *)
(* "A" runs on one core, job "B" on two; job "C" is not in the file.       *)
(***************************************************************************)
WorkloadMeta ==
    PyDict(<< <<"A", PyDict(<< <<"cpus", PyInt(1)>> >>)>>,
              <<"B", PyDict(<< <<"cpus", PyInt(2)>> >>)>> >>)

(***************************************************************************)
(* What a call leaves behind: the store and the exception it raised.       *)
(***************************************************************************)
Ok(th) == [exc |-> "none", th |-> th]
Raise(e, th) == [exc |-> e, th |-> th]

RECURSIVE SeqMax(_)
SeqMax(s) ==
    IF Len(s) = 1 THEN s[1]
    ELSE LET m == SeqMax(Tail(s)) IN IF s[1] > m THEN s[1] ELSE m

RECURSIVE SeqMin(_)
SeqMin(s) ==
    IF Len(s) = 1 THEN s[1]
    ELSE LET m == SeqMin(Tail(s)) IN IF s[1] < m THEN s[1] ELSE m

\* np.arange(start, stop, step) for a step > 0
Arange(start, stop, step) ==
    LET n == IF stop > start THEN (stop - start + step - 1) \div step ELSE 0
    IN  [i \in 1..n |-> start + (i - 1) * step]

\* a partition whose upper end is included
partition_utilization_inclusive(cpu_number, step) ==
    Arange(cpu_number * 50, (cpu_number + 1) * 100 + 1, step)

\* Analyzer.partition_utilization
partition_utilization(cpu_number, step) ==
    LET utilization_upper == (cpu_number + 1) * 100
        utilization_lower == cpu_number * 50
    IN  Arange(utilization_lower, utilization_upper, step)

(***************************************************************************)
(* stats.norm.fit on the near-saturation frequencies: the answer is the    *)
(* library's, given to the build as normfit.                               *)
(***************************************************************************)
\* a record whose bar is the fit's mean - 3*std, whatever was observed
TdpRecordNoClamp(utilization_threshold, freq, fit) ==
    PyDict(<< <<"util", PyInt(utilization_threshold)>>,
              <<"mean", PyInt(fit.mean)>>,
              <<"std", PyInt(fit.std)>>,
              <<"bar", PyInt(fit.mean - 3 * fit.std)>> >>)

\* the record _build_tdp_thresh stores: the bar is mean - 3*std, or the
\* lowest observed frequency when that is lower
TdpRecord(utilization_threshold, freq, fit) ==
    LET mean == fit.mean
        std == fit.std
        min_freq == SeqMin(freq)
        fbar == mean - 3 * std
    IN  PyDict(<< <<"util", PyInt(utilization_threshold)>>,
                  <<"mean", PyInt(mean)>>,
                  <<"std", PyInt(std)>>,
                  <<"bar", PyInt(IF min_freq < fbar THEN min_freq ELSE fbar)>> >>)

\* Analyzer._build_tdp_thresh, on the rows jdata of one job of a table
\* with the columns cols
build_tdp_thresh(th, jdata, cols, fit) ==
    LET job == jdata[1].name
    IN  IF ~HasKey(WorkloadMeta, job) THEN Raise("KeyError", th)
        ELSE
        LET cpu_no == Get(Get(WorkloadMeta, job), "cpus").v
            utilization_threshold == (cpu_no * 100 * 95) \div 100
            NearPeak(r) == r.util >= utilization_threshold
            tdp_data == SelectSeq(jdata, NearPeak)
            freq == [i \in DOMAIN tdp_data |-> tdp_data[i].nf]
        IN  IF UTIL \notin cols \/ NF \notin cols THEN Raise("KeyError", th)
            ELSE IF Len(tdp_data) = 0 THEN Ok(th)
            ELSE IF fit.raises THEN Raise("FitError", th)
            ELSE Ok(Set(th, job,
                        Set(Get(th, job), "tdp",
                            TdpRecord(utilization_threshold, freq, fit))))

(***************************************************************************)
(* The fence estimator (gmmfense.GmmFense).  A sample vector is the column *)
(* col of the rows it was cut from.  The estimator raises on an empty      *)
(* vector and on the vector fensefault names: the one of column            *)
(* fensefault.col holding a sample taken at utilization fensefault.util.   *)
(***************************************************************************)
NoFault == [col |-> "", util |-> 0]

Fense(val) == [raises |-> FALSE, val |-> val]
FenseError == [raises |-> TRUE, val |-> 0]

GmmBroken(mdf, fault) ==
    \/ Len(mdf.rows) = 0
    \/ /\ fault.col = mdf.col
       /\ \E i \in DOMAIN mdf.rows : mdf.rows[i].util = fault.util

get_strict_fense(mdf, is_upper, span, fault) ==
    IF GmmBroken(mdf, fault) THEN FenseError
    ELSE Fense(IF is_upper THEN span * Len(mdf.rows) ELSE 0 - Len(mdf.rows))

get_normal_fense(mdf, is_upper, span, fault) ==
    IF GmmBroken(mdf, fault) THEN FenseError
    ELSE Fense(IF is_upper THEN span * Len(mdf.rows) + 1
               ELSE 0 - Len(mdf.rows) - 1)

\* Analyzer._get_fense
get_fense(mdf, is_upper, strict, span, fault) ==
    IF strict THEN get_strict_fense(mdf, is_upper, span, fault)
    ELSE get_normal_fense(mdf, is_upper, span, fault)

\* jdataf[col]: a KeyError for a column the table lacks
HasCols(cols, wanted) == wanted \subseteq cols

(***************************************************************************)
(* The body of the try of Analyzer._build_thresh for one band: the fence   *)
(* requests in the order made.  exc is what the try raised, thresh the     *)
(* record it had built when it ended.                                      *)
(***************************************************************************)
band_try(jdata, cols, lower_bound, higher_bound, span, strict, fault) ==
    LET InBand(r) == r.util >= lower_bound /\ r.util <= higher_bound
        jdataf == SelectSeq(jdata, InBand)
        Col(c) == [col |-> c, rows |-> jdataf]
        F(c, is_upper) == get_fense(Col(c), is_upper, strict, span, fault)
        cpi_thresh == F(CPI, TRUE)
        mpki_thresh == F(L3MPKI, TRUE)
        memb == IF MB \in cols THEN MB ELSE MBL
        mb_thresh == F(memb, FALSE)
        l2spki_thresh == F(L2SPKI, TRUE)
        mspki_thresh == F(MSPKI, TRUE)
        thresh0 == PyDict(<< <<"util_start", PyInt(lower_bound)>>,
                             <<"util_end", PyInt(higher_bound)>>,
                             <<"cpi", PyInt(cpi_thresh.val)>>,
                             <<"mpki", PyInt(mpki_thresh.val)>>,
                             <<"mb", PyInt(mb_thresh.val)>> >>)
        thresh1 == IF L2SPKI \in cols
                   THEN Set(thresh0, "l2spki", PyInt(l2spki_thresh.val))
                   ELSE thresh0
        thresh2 == IF MSPKI \in cols
                   THEN Set(thresh1, "mspki", PyInt(mspki_thresh.val))
                   ELSE thresh1
    IN  IF ~HasCols(cols, {UTIL, CPI}) THEN Raise("KeyError", EmptyDict)
        ELSE IF cpi_thresh.raises THEN Raise("FenseError", EmptyDict)
        ELSE IF ~HasCols(cols, {L3MPKI}) THEN Raise("KeyError", EmptyDict)
        ELSE IF mpki_thresh.raises THEN Raise("FenseError", EmptyDict)
        ELSE IF ~(MB \in cols \/ HasCols(cols, {MBL, MBR}))
             THEN Raise("KeyError", EmptyDict)
        ELSE IF mb_thresh.raises THEN Raise("FenseError", EmptyDict)
        ELSE IF L2SPKI \in cols /\ l2spki_thresh.raises
             THEN Raise("FenseError", thresh0)
        ELSE IF MSPKI \in cols /\ mspki_thresh.raises
             THEN Raise("FenseError", thresh1)
        ELSE Ok(thresh2)

\* a pass that appends whatever record the try had built when it raised
build_band_partial(th, job, jdata, cols, lower_bound, higher_bound, span, strict, fault) ==
    LET t == band_try(jdata, cols, lower_bound, higher_bound, span, strict, fault)
        rec == Get(th, job)
    IN  IF t.exc = "none" \/ Len(t.th.v) > 0
        THEN Set(th, job,
                 Set(rec, "thresh", PyList(Append(Get(rec, "thresh").v, t.th))))
        ELSE th

\* a pass that puts the record at the head of the list
build_band_prepend(th, job, jdata, cols, lower_bound, higher_bound, span, strict, fault) ==
    LET t == band_try(jdata, cols, lower_bound, higher_bound, span, strict, fault)
        rec == Get(th, job)
    IN  IF t.exc = "none"
        THEN Set(th, job,
                 Set(rec, "thresh", PyList(<<t.th>> \o Get(rec, "thresh").v)))
        ELSE th

\* one pass of the for loop of _build_thresh: the record is appended by the
\* last statement of the try, and the except swallows what the try raised
build_band(th, job, jdata, cols, lower_bound, higher_bound, span, strict, fault) ==
    LET t == band_try(jdata, cols, lower_bound, higher_bound, span, strict, fault)
        rec == Get(th, job)
    IN  IF t.exc = "none"
        THEN Set(th, job,
                 Set(rec, "thresh", PyList(Append(Get(rec, "thresh").v, t.th))))
        ELSE th

RECURSIVE band_loop(_, _, _, _, _, _, _, _, _)
band_loop(th, job, jdata, cols, utilization_partition, index, span, strict, fault) ==
    LET length == Len(utilization_partition)
        lower_bound == utilization_partition[index]
        higher_bound == IF index # length
                        THEN utilization_partition[index + 1]
                        ELSE lower_bound + UTIL_BIN_STEP
    IN  IF index > length THEN th
        ELSE band_loop(build_band(th, job, jdata, cols, lower_bound,
                                  higher_bound, span, strict, fault),
                       job, jdata, cols, utilization_partition, index + 1,
                       span, strict, fault)

\* Analyzer._build_thresh
build_thresh(th, jdata, cols, span, strict, fault) ==
    LET job == jdata[1].name
    IN  IF ~HasKey(WorkloadMeta, job) THEN Raise("KeyError", th)
        ELSE
        LET cpu_no == Get(Get(WorkloadMeta, job), "cpus").v
            utilization_partition == partition_utilization(cpu_no, UTIL_BIN_STEP)
        IN  Ok(band_loop(th, job, jdata, cols, utilization_partition, 1,
                         span, strict, fault))

\* Analyzer._process_lc_max: the filter on name 'lcs' is overwritten by the
\* whole utilization column; int() of the maximum of an empty column raises
process_lc_max(th, utilf) ==
    IF ~utilf.readable THEN Raise("IOError", th)
    ELSE
    LET lcu == [i \in DOMAIN utilf.rows |-> utilf.rows[i].util]
    IN  IF Len(lcu) = 0 THEN Raise("ValueError", th)
        ELSE Ok(Set(th, "lcutilmax", PyInt(SeqMax(lcu))))

\* mdf['name'].unique(): the names in the order of their first rows
RECURSIVE Unique(_)
Unique(names) ==
    IF Len(names) = 0 THEN <<>>
    ELSE LET init == Unique(SubSeq(names, 1, Len(names) - 1))
             x == names[Len(names)]
         IN  IF \E i \in DOMAIN init : init[i] = x THEN init
             ELSE Append(init, x)

\* {"tdp": {}, "thresh": []}
EmptyJob == PyDict(<< <<"tdp", EmptyDict>>, <<"thresh", PyList(<<>>)>> >>)

\* the body of the for loop of build_model for the job cname
build_job(th, mdf, cname, span, strict, fit, fault) ==
    LET th1 == Set(th, cname, EmptyJob)
        IsJob(r) == r.name = cname
        jdata == SelectSeq(mdf.rows, IsJob)
        t == build_tdp_thresh(th1, jdata, mdf.cols, fit)
    IN  IF t.exc # "none" THEN t
        ELSE build_thresh(t.th, jdata, mdf.cols, span, strict, fault)

RECURSIVE job_loop(_, _, _, _, _, _, _)
job_loop(th, mdf, cnames, span, strict, fit, fault) ==
    IF Len(cnames) = 0 THEN Ok(th)
    ELSE LET r == build_job(th, mdf, Head(cnames), span, strict, fit, fault)
         IN  IF r.exc # "none" THEN r
             ELSE job_loop(r.th, mdf, Tail(cnames), span, strict, fit, fault)

(***************************************************************************)
(* Analyzer.build_model: what it leaves in self.threshold and in the       *)
(* threshold file, and how it ended: "noop" (the early return), "done" or  *)
(* "raised".                                                               *)
(***************************************************************************)
\* a short circuit that looks for job records only
short_circuit_on_jobs(th) ==
    \E i \in DOMAIN th.v : th.v[i][2].type = "dict"

\* "if self.threshold: return"
short_circuit(th) == Truthy(th)

build_model(th, file, utilf, mdf, span, strict, fit, fault) ==
    IF short_circuit(th) THEN [th |-> th, file |-> file, status |-> "noop"]
    ELSE
    LET p == process_lc_max(th, utilf)
        cnames == Unique([i \in DOMAIN mdf.rows |-> mdf.rows[i].name])
        r == job_loop(p.th, mdf, cnames, span, strict, fit, fault)
    IN  IF p.exc # "none" THEN [th |-> p.th, file |-> file, status |-> "raised"]
        ELSE IF ~mdf.readable
             THEN [th |-> p.th, file |-> file, status |-> "raised"]
        ELSE IF r.exc # "none"
             THEN [th |-> r.th, file |-> file, status |-> "raised"]
        ELSE [th |-> r.th, file |-> FileOf(Dumps(r.th)), status |-> "done"]

\* Analyzer.__init__: the store a new Analyzer starts with
init_threshold(file) == IF CanLoad(file) THEN Loads(file.text) ELSE EmptyDict

\* Analyzer.update_lcutilmax
update_lcutilmax(th, lc_utils) == Set(th, "lcutilmax", PyInt(lc_utils))

\* self.threshold[job][field] if job in self.threshold else {}
lookup(th, job, field) ==
    IF HasKey(th, job)
    THEN IF Get(th, job).type # "dict" THEN [exc |-> "TypeError", val |-> PyNone]
         ELSE IF ~HasKey(Get(th, job), field)
              THEN [exc |-> "KeyError", val |-> PyNone]
         ELSE [exc |-> "none", val |-> Get(Get(th, job), field)]
    ELSE [exc |-> "none", val |-> EmptyDict]

\* Analyzer.get_thresh
get_thresh(th, job) == lookup(th, job, "thresh")

\* Analyzer.get_tdp_thresh
get_tdp_thresh(th, job) == lookup(th, job, "tdp")

\* Analyzer.get_lcutilmax
get_lcutilmax(th) == IF HasKey(th, "lcutilmax") THEN Get(th, "lcutilmax") ELSE PyInt(0)

(***************************************************************************)
(* The inputs.                                                             *)
(***************************************************************************)
SeqsUpTo(S, n) == UNION {[1..k -> S] : k \in 0..n}

JobNames == {"A", "B", "C"}
MetricUtils == {100, 200}
AllCols == {"name", UTIL, NF, CPI, L3MPKI, MB, MBL, MBR, L2SPKI, MSPKI}
ColSets == {AllCols, AllCols \ {NF}, AllCols \ {MB, L2SPKI, MSPKI}}

Unreadable == [readable |-> FALSE, cols |-> {}, rows |-> <<>>]

MetricTables ==
    {Unreadable} \cup
    [readable : {TRUE}, cols : ColSets,
     rows : SeqsUpTo([name : JobNames, util : MetricUtils, nf : {2}], MaxRows)]

UtilTables ==
    {Unreadable,
     [readable |-> TRUE, cols |-> {"name", UTIL},
      rows |-> << [name |-> "lcs", util |-> 120], [name |-> "A", util |-> 205] >>]}

FitAnswers ==
    {[raises |-> TRUE, mean |-> 0, std |-> 0], [raises |-> FALSE, mean |-> 3, std |-> 0]}

FenseFaults == {NoFault, [col |-> CPI, util |-> 100], [col |-> MSPKI, util |-> 200]}

QueryNames == {"A", "Z", "lcutilmax"}

Call(op, job, status) == [op |-> op, job |-> job, status |-> status, args |-> <<>>]

(***************************************************************************)
(* The Analyzer's life: construction, then any calls in any order.         *)
(***************************************************************************)
Init ==
    /\ thresh_file \in {NoFile, Garbage}
    /\ threshold = init_threshold(thresh_file)
    /\ metric_file \in MetricTables
    /\ util_file \in UtilTables
    /\ normfit \in FitAnswers
    /\ fensefault \in FenseFaults
    /\ last = Call("__init__", "", "returned")
    /\ ret = PyNone

\* a new Analyzer on the same threshold file
Construct ==
    /\ threshold' = init_threshold(thresh_file)
    /\ last' = Call("__init__", "", "returned")
    /\ ret' = PyNone
    /\ UNCHANGED <<thresh_file, metric_file, util_file, normfit, fensefault>>

BuildModel ==
    /\ LET b == build_model(threshold, thresh_file, util_file, metric_file,
                            SPAN, STRICT, normfit, fensefault)
       IN  /\ threshold' = b.th
           /\ thresh_file' = b.file
           /\ last' = Call("build_model", "", b.status)
    /\ ret' = PyNone
    /\ UNCHANGED <<metric_file, util_file, normfit, fensefault>>

\* an update that writes the file before it sets the key
UpdateLcutilmaxWriteFirst ==
    \E lc_utils \in 0..MaxLcUtil :
        /\ thresh_file' = FileOf(Dumps(threshold))
        /\ threshold' = update_lcutilmax(threshold, lc_utils)
        /\ last' = Call("update_lcutilmax", "", "returned")
        /\ ret' = PyNone
        /\ UNCHANGED <<metric_file, util_file, normfit, fensefault>>

UpdateLcutilmax ==
    \E lc_utils \in 0..MaxLcUtil :
        /\ threshold' = update_lcutilmax(threshold, lc_utils)
        /\ thresh_file' = FileOf(Dumps(threshold'))
        /\ last' = Call("update_lcutilmax", "", "returned")
        /\ ret' = PyNone
        /\ UNCHANGED <<metric_file, util_file, normfit, fensefault>>

GetThresh ==
    \E job \in QueryNames :
        LET g == get_thresh(threshold, job)
        IN  /\ ret' = g.val
            /\ last' = Call("get_thresh", job,
                            IF g.exc = "none" THEN "returned" ELSE g.exc)
            /\ UNCHANGED <<threshold, thresh_file, metric_file, util_file,
                           normfit, fensefault>>

GetTdpThresh ==
    \E job \in QueryNames :
        LET g == get_tdp_thresh(threshold, job)
        IN  /\ ret' = g.val
            /\ last' = Call("get_tdp_thresh", job,
                            IF g.exc = "none" THEN "returned" ELSE g.exc)
            /\ UNCHANGED <<threshold, thresh_file, metric_file, util_file,
                           normfit, fensefault>>

GetLcutilmax ==
    /\ ret' = get_lcutilmax(threshold)
    /\ last' = Call("get_lcutilmax", "", "returned")
    /\ UNCHANGED <<threshold, thresh_file, metric_file, util_file,
                   normfit, fensefault>>

Next ==
    \/ Construct
    \/ BuildModel
    \/ UpdateLcutilmax
    \/ GetThresh
    \/ GetTdpThresh
    \/ GetLcutilmax

Spec == Init /\ [][Next]_vars

(***************************************************************************)
(* partition_utilization alone, applied to 0..MaxCpu cores and steps       *)
(* 1..MaxStep.                                                             *)
(***************************************************************************)
InitPartition ==
    /\ thresh_file = NoFile
    /\ threshold = EmptyDict
    /\ metric_file = Unreadable
    /\ util_file = Unreadable
    /\ normfit = [raises |-> TRUE, mean |-> 0, std |-> 0]
    /\ fensefault = NoFault
    /\ \E cpu_number \in 0..MaxCpu, step \in 1..MaxStep :
          last = [op |-> "partition_utilization", job |-> "",
                  status |-> "called", args |-> <<cpu_number, step>>]
    /\ ret = PyNone

PartitionUtilization ==
    /\ last.op = "partition_utilization"
    /\ last.status = "called"
    /\ ret' = [type |-> "ndarray",
               v |-> partition_utilization(last.args[1], last.args[2])]
    /\ last' = [last EXCEPT !.status = "returned"]
    /\ UNCHANGED <<threshold, thresh_file, metric_file, util_file, normfit,
                   fensefault>>

SpecPartition == InitPartition /\ [][PartitionUtilization]_vars

(***************************************************************************)
(* _build_tdp_thresh alone, applied to the rows of job "A" (one core, near  *)
(* saturation from utilization 95) or of job "B" (two cores, from 190) and *)
(* to each answer of the fit.                                              *)
(***************************************************************************)
TdpUtils == {100, 190}

InitTdp ==
    /\ thresh_file = NoFile
    /\ \E job \in {"A", "B"} :
          /\ threshold = Set(EmptyDict, job, EmptyJob)
          /\ metric_file \in
                [readable : {TRUE}, cols : {AllCols},
                 rows : SeqsUpTo([name : {job}, util : TdpUtils, nf : 1..MaxFreq],
                                 MaxSamples) \ {<<>>}]
          /\ last = Call("_build_tdp_thresh", job, "called")
    /\ util_file = Unreadable
    /\ normfit \in [raises : {FALSE}, mean : 1..MaxFreq, std : 0..1]
    /\ fensefault = NoFault
    /\ ret = PyNone

BuildTdpThresh ==
    /\ last.op = "_build_tdp_thresh"
    /\ last.status = "called"
    /\ LET t == build_tdp_thresh(threshold, metric_file.rows, metric_file.cols,
                                 normfit)
       IN  /\ threshold' = t.th
           /\ last' = Call("_build_tdp_thresh", last.job,
                           IF t.exc = "none" THEN "returned" ELSE "raised")
    /\ UNCHANGED <<thresh_file, metric_file, util_file, normfit, fensefault, ret>>

SpecTdp == InitTdp /\ [][BuildTdpThresh]_vars

(***************************************************************************)
(* What the claims speak of.                                               *)
(***************************************************************************)
\* the job names that hold a job record in the store th
JobsOf(th) == {k \in Keys(th) : Get(th, k).type = "dict"}

\* the distinct job names of the metric table
TableJobs == {metric_file.rows[i].name : i \in DOMAIN metric_file.rows}

RowsOf(job) ==
    LET IsJob(r) == r.name = job IN SelectSeq(metric_file.rows, IsJob)

CpusOf(job) == Get(Get(WorkloadMeta, job), "cpus").v

\* the band starts of a job, and the end of the band starting at index k
BandsOf(job) == partition_utilization(CpusOf(job), UTIL_BIN_STEP)
BandEnd(job, k) == BandsOf(job)[k] + UTIL_BIN_STEP

SamplesIn(job, k) ==
    {i \in DOMAIN RowsOf(job) :
        /\ RowsOf(job)[i].util >= BandsOf(job)[k]
        /\ RowsOf(job)[i].util <= BandEnd(job, k)}

\* the estimator raises on a sample vector of band k of the job
BandFails(job, k) ==
    \/ SamplesIn(job, k) = {}
    \/ /\ fensefault.col \in metric_file.cols
       /\ \E i \in SamplesIn(job, k) : RowsOf(job)[i].util = fensefault.util

ThreshOf(job) == Get(Get(threshold, job), "thresh").v
TdpOf(job) == Get(Get(threshold, job), "tdp")

AfterBuild(status) == last.op = "build_model" /\ last.status = status

\* something other than a fence computation fails in a build from these inputs
OtherFailure ==
    \/ ~util_file.readable
    \/ ~metric_file.readable
    \/ \E job \in TableJobs : ~HasKey(WorkloadMeta, job)
    \/ NF \notin metric_file.cols
    \/ /\ normfit.raises
       /\ \E i \in DOMAIN metric_file.rows :
             LET r == metric_file.rows[i]
             IN  HasKey(WorkloadMeta, r.name) /\ r.util * 100 >= CpusOf(r.name) * 9500

(***************************************************************************)
(* C1: a build_model call on a non-empty store changes neither the store   *)
(* nor the threshold file.                                                 *)
(***************************************************************************)
C1_ShortCircuitNoop ==
    [][(last'.op = "build_model" /\ Len(threshold.v) > 0)
          => (threshold' = threshold /\ thresh_file' = thresh_file)]_vars

\* build_model has returned early on a store with a job record, with the
\* file of an earlier build in place
C1_Witness ==
    /\ AfterBuild("noop")
    /\ JobsOf(threshold) # {}
    /\ thresh_file.exists

(***************************************************************************)
(* C2: when build_model has returned, the store is empty or has a job      *)
(* record for every job name of the metric table the call was given: no    *)
(* non-empty store lacks job records that build_model refuses to build.    *)
(***************************************************************************)
C2_AbsentOrFullyPopulated ==
    (last.op = "build_model" /\ last.status # "raised" /\ Len(threshold.v) > 0)
        => \A job \in TableJobs : job \in JobsOf(threshold)

(***************************************************************************)
(* C3: a fence failure skips its band and nothing else.  After a build,    *)
(* the thresh list of every job is the list of the records of its bands    *)
(* whose fences did not raise, each as it is computed when no fence is     *)
(* faulty, in band order; the build ends by raising only when something    *)
(* other than a fence failed (and then the jobs before the one it stopped  *)
(* at have these lists too), and else has written the store to the file.   *)
(***************************************************************************)
ExpectedThresh(job) ==
    LET Good(k) == ~BandFails(job, k)
        good == SelectSeq([k \in DOMAIN BandsOf(job) |-> k], Good)
    IN  [n \in DOMAIN good |->
            band_try(RowsOf(job), metric_file.cols, BandsOf(job)[good[n]],
                     BandEnd(job, good[n]), SPAN, STRICT, NoFault).th]

C3_FenceFailureSkipsOnlyItsBand ==
    /\ AfterBuild("done") =>
          /\ \A job \in TableJobs : ThreshOf(job) = ExpectedThresh(job)
          /\ thresh_file = FileOf(Dumps(threshold))
    /\ AfterBuild("raised") =>
          /\ OtherFailure
          /\ \A i \in 1..(Len(threshold.v) - 1) :
                threshold.v[i][2].type = "dict" =>
                    ThreshOf(threshold.v[i][1]) = ExpectedThresh(threshold.v[i][1])

\* a finished build in which the fences of a band of the first job raised, a
\* later band of that job got its record, and so did a later job
C3_Witness ==
    /\ AfterBuild("done")
    /\ \E job \in TableJobs :
          /\ \E k \in DOMAIN BandsOf(job) :
                /\ BandFails(job, k)
                /\ \E m \in DOMAIN BandsOf(job) : m > k /\ ~BandFails(job, m)
          /\ \E other \in TableJobs :
                /\ other # job
                /\ metric_file.rows[1].name = job
                /\ Len(ThreshOf(other)) > 0

(***************************************************************************)
(* C4: a failure of the TDP computation of a job does not stop the build:  *)
(* a build from readable tables whose jobs are all in the workload         *)
(* metadata finishes and writes the threshold file.                        *)
(***************************************************************************)
C4_TdpFailureRecoverable ==
    ( /\ last.op = "build_model"
      /\ last.status # "noop"
      /\ util_file.readable
      /\ metric_file.readable
      /\ \A job \in TableJobs : HasKey(WorkloadMeta, job) )
        => /\ last.status = "done"
           /\ thresh_file = FileOf(Dumps(threshold))
           /\ \A job \in TableJobs : job \in JobsOf(threshold)

(***************************************************************************)
(* C5: get_thresh and get_tdp_thresh return an empty result, without       *)
(* raising, for every name that has no job record.                         *)
(***************************************************************************)
C5_UnknownJobEmpty ==
    ( /\ last.op \in {"get_thresh", "get_tdp_thresh"}
      /\ last.job \notin JobsOf(threshold) )
        => (last.status = "returned" /\ ret = EmptyDict)

(***************************************************************************)
(* C6: every job name with a record in the store is a job name of the      *)
(* workload metadata.                                                      *)
(***************************************************************************)
C6_JobsSubsetOfMetadata ==
    \A job \in JobsOf(threshold) : HasKey(WorkloadMeta, job)

(***************************************************************************)
(* C7: right after a finished build and right after update_lcutilmax the   *)
(* threshold file parses to the store in memory, and a new Analyzer on the *)
(* file starts with that store.                                            *)
(***************************************************************************)
CommitPoint == AfterBuild("done") \/ last.op = "update_lcutilmax"

C7_CommitRoundTrip ==
    CommitPoint =>
        /\ CanLoad(thresh_file)
        /\ Loads(thresh_file.text) = threshold
        /\ init_threshold(thresh_file) = threshold

\* update_lcutilmax has just rewritten the file of a store that holds a job
\* with a TDP record and band records (among them a negative number)
C7_Witness ==
    /\ last.op = "update_lcutilmax"
    /\ \E job \in JobsOf(threshold) :
          /\ Len(ThreshOf(job)) > 0
          /\ Len(TdpOf(job).v) > 0
          /\ Get(ThreshOf(job)[1], "mb").v < 0

(***************************************************************************)
(* C8: partition_utilization(c, step) is non-empty, starts at 50*c, goes   *)
(* up by exactly step and ends below 100*(c+1).                            *)
(***************************************************************************)
C8_PartitionShape ==
    (last.op = "partition_utilization" /\ last.status = "returned") =>
        LET c == last.args[1]
            step == last.args[2]
            out == ret.v
        IN  /\ Len(out) > 0
            /\ out[1] = 50 * c
            /\ \A i \in 1..(Len(out) - 1) :
                  out[i + 1] > out[i] /\ out[i + 1] - out[i] = step
            /\ out[Len(out)] < 100 * (c + 1)

\* a partition of several bands whose step divides the range
C8_Witness ==
    /\ last.op = "partition_utilization"
    /\ last.status = "returned"
    /\ Len(ret.v) > 2
    /\ (100 * (last.args[1] + 1) - 50 * last.args[1]) % last.args[2] = 0

(***************************************************************************)
(* C9: the bar of a job's TDP record is at most the normalized frequency   *)
(* of every sample of the job at or above 95% of its cores.                *)
(***************************************************************************)
NearSaturation(job) ==
    {i \in DOMAIN RowsOf(job) : RowsOf(job)[i].util * 100 >= CpusOf(job) * 9500}

C10_BandsAscending ==
    \A job \in JobsOf(threshold) :
        LET th == ThreshOf(job)
        IN  /\ \A i \in DOMAIN th :
                  Get(th[i], "util_start").v < Get(th[i], "util_end").v
            /\ \A i \in 1..(Len(th) - 1) :
                  Get(th[i], "util_start").v < Get(th[i + 1], "util_start").v

\* a built job with two records after a skipped band
C10_Witness ==
    /\ AfterBuild("done")
    /\ \E job \in JobsOf(threshold) :
          /\ HasKey(WorkloadMeta, job)
          /\ Len(ThreshOf(job)) >= 2
          /\ Get(ThreshOf(job)[1], "util_start").v > BandsOf(job)[1]

====
